---- MODULE Spec2Model ----
(***************************************************************************)
(* svgbit: the STDataset object and the staged pipeline                    *)
(*   acquire_weight -> acquire_hotspot -> acquire_density -> find_clusters *)
(* with the per-gene process pools of local_moran and hotspot_AI.          *)
(*                                                                         *)
(* Spot keys are the integers 1..n, gene keys are GeneKey(j) = 100 + j, so *)
(* that a table keyed by spots and a table keyed by genes never look the   *)
(* same.  An Optional field is <<>> (None) or <<v>>.                       *)
(* p-values are kept in per-mille (p_sim = P/1000 with 999 permutations),  *)
(* the weight -log(p) in tenths, rounded; Di and AI are exact fractions.   *)
(***************************************************************************)
EXTENDS Integers, Sequences, FiniteSets, TLC

VARIABLES
    count_df,        \* STDataset._count_df: [index, columns, ...]
    coordinate_df,   \* STDataset._coordinate_df: [index, columns, data]
    caller,          \* the two table instances the caller constructed from
    normalizer,      \* STDataset._normalizer
    array_coordinate, \* STDataset._array_coordinate
    returned,        \* the dataset object the last transform returned
    weight,          \* STDataset._weight
    weight_type,     \* STDataset._weight_type
    hotspot_df,      \* STDataset._hotspot_df
    local_moran_i,   \* STDataset._local_moran_i
    local_moran_p,   \* STDataset._local_moran_p
    AI,              \* STDataset._AI
    Di,              \* STDataset._Di
    svg_cluster,     \* STDataset._svg_cluster
    spot_type,       \* STDataset._spot_type
    stack,           \* the calls still to execute, innermost first
    pool,            \* the multiprocessing.Pool of the running stage, if any
    outcome,         \* how the last top-level call ended
    log,             \* the stages begun and ended by the current top-level call
    calls,           \* number of stage calls made so far
    hotspot_q,       \* the quadrants esda reported for the stored hotspot_df
    hotspot_w,       \* the weight the stored hotspot_df was computed with
    gene_cluster     \* SVGLib STDataset._gene_cluster

vars == <<count_df, coordinate_df, caller, normalizer, array_coordinate,
          returned, weight, weight_type, hotspot_df,
          local_moran_i, local_moran_p, AI, Di, svg_cluster, spot_type,
          stack, pool, outcome, log, calls, hotspot_q, hotspot_w, gene_cluster>>

dataVars == <<count_df, coordinate_df, caller, normalizer, array_coordinate,
              returned>>
derivedVars == <<weight, weight_type, hotspot_df, local_moran_i,
                 local_moran_p, AI, Di, svg_cluster, spot_type, hotspot_q,
                 hotspot_w>>

---------------------------------------------------------------------------
(* Bounds of the model *)

NSpots == 7          \* spots of the dataset of Spec
NGenes == 2          \* genes of the dataset of Spec
FnSpots == 3         \* spots of the dataset of SpecSmall
MaxCalls == 1        \* stage calls per behaviour
CpuCount == 2        \* multiprocessing.cpu_count() of the machine
ClSpots == 3         \* spots of the dataset of SpecCluster
ClGenes == 3         \* genes of the dataset of SpecCluster
NewSpots == 3        \* spot labels of the caller's tables of SpecNew
NewGenes == 3        \* gene columns of the caller's tables of SpecNew
MaxCount == 2        \* largest count in the caller's expression matrix
MaxTransforms == 1   \* filters and normalizers applied per behaviour
SeqCalls == 2        \* stage calls per behaviour of SpecSeq

(* Program constants *)

DefaultK == 6            \* acquire_weight(k=6)
Significance == 50       \* p_sim < 0.05, in per-mille
HighHigh == 1            \* gene_lisa.q == 1
DefaultNSvgs == 1000     \* find_clusters(n_svgs=1000)
DefaultNClusters == 8    \* find_clusters(n_svg_clusters=8)

---------------------------------------------------------------------------
(* Optional values, results, arithmetic *)

None == <<>>
Some(v) == <<v>>
IsNone(x) == x = <<>>
Get(x) == x[1]

Ok(v) == [ok |-> TRUE, val |-> v]
Raise(e) == [ok |-> FALSE, err |-> e]

GeneKey(j) == 100 + j
Range(s) == {s[i] : i \in DOMAIN s}

RECURSIVE GCD(_, _)
GCD(a, b) == IF b = 0 THEN a ELSE GCD(b, a % b)

LCM(a, b) == (a \div GCD(a, b)) * b

RECURSIVE SumOver(_, _)
SumOver(f, S) ==
    IF S = {} THEN 0
    ELSE LET x == CHOOSE y \in S : TRUE IN f[x] + SumOver(f, S \ {x})

RECURSIVE LCMOver(_, _)
LCMOver(f, S) ==
    IF S = {} THEN 1
    ELSE LET x == CHOOSE y \in S : TRUE IN LCM(f[x], LCMOver(f, S \ {x}))

\* the fraction n/d, d > 0, in lowest terms
Frac(n, d) == LET g == GCD(n, d) IN [num |-> n \div g, den |-> d \div g]
Zero == [num |-> 0, den |-> 1]

---------------------------------------------------------------------------
(* pandas objects: a Series is a named column over an ordered index, a     *)
(* DataFrame is a set of columns in an order.                              *)

Series(name, index, data) ==
    [kind |-> "Series", name |-> name, index |-> index, data |-> data]

IntObj(v) == [kind |-> "int", value |-> v]

DataFrame(index, columns, data) ==
    [index |-> index, columns |-> columns, data |-> data]

NaN == [nan |-> TRUE]

\* reindex that puts the columns in the reverse of the given order
reindex_reversed(df, index, columns) ==
    DataFrame(index, [i \in DOMAIN columns |-> columns[Len(columns) + 1 - i]],
        [c \in Range(columns) |->
            [r \in Range(index) |->
                IF c \in Range(df.columns) /\ r \in Range(df.index)
                THEN df.data[c][r] ELSE NaN]])

\* DataFrame.reindex(index=..., columns=...): the given labels in the given
\* order; a label the frame does not have gets NaN.
reindex(df, index, columns) ==
    DataFrame(index, columns,
        [c \in Range(columns) |->
            [r \in Range(index) |->
                IF c \in Range(df.columns) /\ r \in Range(df.index)
                THEN df.data[c][r] ELSE NaN]])

\* Series.reindex(index=...)
reindex_series(sr, index) ==
    [index |-> index,
     data |-> [r \in Range(index) |->
                 IF r \in Range(sr.index) THEN sr.data[r] ELSE NaN]]

\* pd.concat(objs, axis=1): a column per object, in the order of the list;
\* anything but a Series or a DataFrame in the list is a TypeError.
concat_columns(objs) ==
    IF \E i \in DOMAIN objs : objs[i].kind # "Series"
    THEN Raise("TypeError")
    ELSE Ok(DataFrame(objs[1].index,
                      [i \in DOMAIN objs |-> objs[i].name],
                      [c \in {objs[i].name : i \in DOMAIN objs} |->
                          LET i == CHOOSE k \in DOMAIN objs : objs[k].name = c
                          IN objs[i].data]))

\* pd.concat(objs, axis=0) of one-entry Series: the entries, in the order of
\* the list.
concat_rows(objs) ==
    [index |-> [i \in DOMAIN objs |-> objs[i].index[1]],
     data |-> [g \in {objs[i].index[1] : i \in DOMAIN objs} |->
                 LET i == CHOOSE k \in DOMAIN objs : objs[k].index[1] = g
                 IN objs[i].data[g]]]

\* DataFrame.astype(pd.SparseDtype("float", 0)): the storage changes, the
\* labels and the values do not.
astype_sparse(df) == df

---------------------------------------------------------------------------
(* esda.moran.Moran_Local: what the library hands back for one gene is an  *)
(* input of the program: p_sim (per-mille), the quadrant q and EI_sim per  *)
(* spot.                                                                   *)


Lisa(p_sims, qs) ==
    [p_sim |-> p_sims, q |-> qs, EI_sim |-> [s \in DOMAIN p_sims |-> Zero]]

\* the answers for one spot: p-values below, just below and at 0.05 in the
\* high-high quadrant, and every other quadrant with some p-value
LisaPoints ==
    ({1, 49, 50} \X {HighHigh}) \cup {<<49, 2>>, <<1, 3>>, <<1000, 4>>}

\* every combination of these answers over n spots
AllLisa(n) ==
    {Lisa([s \in 1 .. n |-> pq[s][1]], [s \in 1 .. n |-> pq[s][2]]) :
        pq \in [1 .. n -> LisaPoints]}

\* a planted pattern over n spots: the spots 1..h are significant high-high,
\* the others are not significant (p = 0.05 exactly on even spots, p = 1 on
\* odd ones) in the quadrant the spot number gives.
PlantedLisa(n, h, ph) ==
    Lisa([s \in 1 .. n |-> IF s <= h THEN ph
                           ELSE IF s % 2 = 0 THEN 50 ELSE 1000],
         [s \in 1 .. n |-> IF s <= h THEN 1 ELSE 1 + (s % 4)])

\* what the library hands back for a gene of zero variance over n spots.
\* The centred values are 0 and the statistic is 0 / 0: no spot is above the
\* mean, so every spot is in quadrant 3; no comparison of a permuted
\* statistic with NaN holds, so p_sim is 1 / (permutations + 1) everywhere;
\* EI_sim is NaN.  Nothing is raised.
UndefinedLisa(n) ==
    [p_sim |-> [s \in 1 .. n |-> 1], q |-> [s \in 1 .. n |-> 3],
     EI_sim |-> [s \in 1 .. n |-> NaN]]

\* the answers of Spec: a gene without a defined statistic, a gene with two
\* hotspots and a gene that is significant high-high everywhere
PlantedCases(n) ==
    {UndefinedLisa(n), PlantedLisa(n, 2, 1), PlantedLisa(n, n, 49)}

\* svgbit/core/moran.py, _local_moran: the result of one task.
_local_moran_strict(gene, index, lisa) ==
    LET local_moran_hotspot ==
            [s \in Range(index) |->
                IF lisa.p_sim[s] <= Significance /\ lisa.q[s] = HighHigh
                THEN 1 ELSE 0]
        hotspot ==
            IF \A s \in Range(index) : local_moran_hotspot[s] = 1
            THEN IntObj(0)
            ELSE Series(gene, index, local_moran_hotspot)
    IN  <<hotspot,
          Series(gene, index, lisa.EI_sim),
          Series(gene, index, lisa.p_sim)>>

_local_moran(gene, index, lisa) ==
    LET local_moran_hotspot ==
            [s \in Range(index) |->
                IF lisa.p_sim[s] < Significance /\ lisa.q[s] = HighHigh
                THEN 1 ELSE 0]
        hotspot ==
            IF \A s \in Range(index) : local_moran_hotspot[s] = 1
            THEN IntObj(0)
            ELSE Series(gene, index, local_moran_hotspot)
    IN  <<hotspot,
          Series(gene, index, lisa.EI_sim),
          Series(gene, index, lisa.p_sim)>>

\* the merges, refusing a statistic that is not a number
local_moran_merge_checked(result_lists) ==
    IF \E i \in DOMAIN result_lists :
          \E s \in DOMAIN result_lists[i][2].data : result_lists[i][2].data[s] = NaN
    THEN Raise("FloatingPointError")
    ELSE Ok(<<concat_columns([i \in DOMAIN result_lists |-> result_lists[i][1]]).val,
              concat_columns([i \in DOMAIN result_lists |-> result_lists[i][2]]).val,
              concat_columns([i \in DOMAIN result_lists |-> result_lists[i][3]]).val>>)

\* svgbit/core/moran.py, local_moran, after the pool: the three merges.
local_moran_merge(result_lists) ==
    LET hotspot == concat_columns([i \in DOMAIN result_lists |-> result_lists[i][1]])
        i_value == concat_columns([i \in DOMAIN result_lists |-> result_lists[i][2]])
        p_value == concat_columns([i \in DOMAIN result_lists |-> result_lists[i][3]])
    IN  IF ~hotspot.ok THEN hotspot
        ELSE Ok(<<hotspot.val, i_value.val, p_value.val>>)

---------------------------------------------------------------------------
(* libpysal weights.  A W object holds, per position 1..n, the positions   *)
(* of its neighbours, and its transformation: "O" (binary, each weight 1)  *)
(* or "R" (row-standardised, each weight 1/len(neighbors[i])).             *)

W(neighbors, transform) == [neighbors |-> neighbors, transform |-> transform]

SqDist(a, b) == (a[1] - b[1]) * (a[1] - b[1]) + (a[2] - b[2]) * (a[2] - b[2])

\* j comes before j2 among the neighbours of i: nearer, or as near with the
\* smaller position
Nearer(coords, i, j, j2) ==
    \/ SqDist(coords[i], coords[j]) < SqDist(coords[i], coords[j2])
    \/ /\ SqDist(coords[i], coords[j]) = SqDist(coords[i], coords[j2])
       /\ j < j2

\* libpysal.weights.KNN(coordinate_df, k): the k nearest other spots of each
\* spot, binary weights.  The library cannot build the graph for k < 1 or
\* k >= n and the call ends in its error.
KNN(coords, k) ==
    LET n == Cardinality(DOMAIN coords)
    IN  IF k < 1 \/ k >= n THEN Raise("KNNError")
        ELSE Ok(W([i \in 1 .. n |->
                     {j \in (1 .. n) \ {i} :
                        Cardinality({j2 \in (1 .. n) \ {i, j} :
                                        Nearer(coords, i, j2, j)}) < k}],
                  "O"))

\* W.full()[0][i][j], the weight of j in the row of i, as a fraction
full(w, i, j) ==
    IF j \notin w.neighbors[i] THEN Zero
    ELSE IF w.transform = "O" THEN Frac(1, 1)
    ELSE Frac(1, Cardinality(w.neighbors[i]))

\* ndarray.astype(int) of a non-negative value: the integer part
astype_int(x) == x.num \div x.den

\* pysal_to_pandas without the transposition: column i and row j hold the
\* weight of the i-th spot in the row of the j-th spot
pysal_to_pandas_untransposed(w, index) ==
    [i \in Range(index) |->
        [j \in Range(index) |->
            LET pi == CHOOSE a \in DOMAIN index : index[a] = i
                pj == CHOOSE a \in DOMAIN index : index[a] = j
            IN astype_int(full(w, pj, pi))]]

\* svgbit/core/utils.py, pysal_to_pandas, then the relabelling of rows and
\* columns by hotspot_df.index: knn[i][j], column i and row j, is the
\* integer part of the weight of the j-th spot in the row of the i-th spot.
pysal_to_pandas(w, index) ==
    [i \in Range(index) |->
        [j \in Range(index) |->
            LET pi == CHOOSE a \in DOMAIN index : index[a] = i
                pj == CHOOSE a \in DOMAIN index : index[a] = j
            IN astype_int(full(w, pi, pj))]]

\* -np.log(p) of a p-value in per-mille, in tenths, rounded
NegLog(p) ==
    CASE p = 1 -> 69
      [] p = 49 -> 30
      [] p = 50 -> 30
      [] p = 1000 -> 0

\* weight_df = -np.log(self._local_moran_p)
neg_log_df(df) ==
    DataFrame(df.index, df.columns,
        [c \in Range(df.columns) |->
            [r \in Range(df.index) |-> NegLog(df.data[c][r])]])

\* sum of fractions; a term that is no number (denominator 0) makes the sum
\* no number
FracSum(f, S) ==
    LET L == LCMOver([x \in S |-> f[x].den], S)
    IN  IF \E x \in S : f[x].den = 0 THEN [num |-> 1, den |-> 0]
        ELSE Frac(SumOver([x \in S |-> f[x].num * (L \div f[x].den)], S), L)

\* ratio_sum with a sum that keeps NaN: 0/0 stays undefined
ratio_sum_keepna(wcol, inter, knn_coors) ==
    LET den == SumOver(wcol, knn_coors)
        num == SumOver(wcol, inter)
    IN  IF den = 0 THEN [num |-> num, den |-> 0] ELSE Frac(num, den)

\* (weights[inter] / denominator).sum(): with a zero denominator every term
\* is 0/0 = NaN, which Series.sum skips, so the sum is 0; a positive term
\* over zero is infinite.
ratio_sum(wcol, inter, knn_coors) ==
    LET den == SumOver(wcol, knn_coors)
        num == SumOver(wcol, inter)
    IN  IF den = 0
        THEN (IF num = 0 THEN Zero ELSE [num |-> 1, den |-> 0])
        ELSE Frac(num, den)

\* the neighbours of hotspot i: the rows of column i of knn that hold 1
knn_coors_of(knn, i) == {j \in DOMAIN knn[i] : knn[i][j] = 1}

\* _hotspot_AI with di_mean = di_sum, the division by n_hotspots left out
_hotspot_AI_sum(gene, hdf, weight_df, knn) ==
    LET hotspots == {s \in Range(hdf.index) : hdf.data[gene][s] # 0}
        hs == [i \in hotspots |->
                 ratio_sum(weight_df.data[gene],
                           hotspots \cap knn_coors_of(knn, i),
                           knn_coors_of(knn, i))]
    IN  [AI |-> [index |-> <<gene>>, data |-> (gene :> FracSum(hs, hotspots))],
         Di |-> Series(gene, hdf.index,
                   [s \in Range(hdf.index) |->
                       IF s \in hotspots THEN hs[s] ELSE Zero])]

\* SVGLib/core/density.py, _hotspot_AI: AI and the Di column of one gene.
_hotspot_AI(gene, hdf, weight_df, knn) ==
    LET hotspots == {s \in Range(hdf.index) : hdf.data[gene][s] # 0}
        n_hotspots == Cardinality(hotspots)
        hs == [i \in hotspots |->
                 ratio_sum(weight_df.data[gene],
                           hotspots \cap knn_coors_of(knn, i),
                           knn_coors_of(knn, i))]
        di_sum == FracSum(hs, hotspots)
    IN  IF n_hotspots = 0
        THEN [AI |-> [index |-> <<gene>>, data |-> (gene :> Zero)],
              Di |-> Series(gene, hdf.index, [s \in Range(hdf.index) |-> Zero])]
        ELSE [AI |-> [index |-> <<gene>>,
                      data |-> (gene :> Frac(di_sum.num, di_sum.den * n_hotspots))],
              Di |-> Series(gene, hdf.index,
                        [s \in Range(hdf.index) |->
                            IF s \in hotspots THEN hs[s] ELSE Zero])]

\* SVGLib/core/density.py, hotspot_AI, after the pool: the two merges.
hotspot_AI_merge(result_lists) ==
    LET di == concat_columns([i \in DOMAIN result_lists |-> result_lists[i].Di])
    IN  <<concat_rows([i \in DOMAIN result_lists |-> result_lists[i].AI]), di.val>>

---------------------------------------------------------------------------
(* Construction.  A table is its row labels in order, its column labels in *)
(* order and its values by row label.  The expression matrix holds         *)
(* values[j][r], the value of the j-th column in the row labelled r, as a  *)
(* fraction; the coordinate table holds data[r] = <<X, Y>> for the rows    *)
(* that have values, and a row of the index outside DOMAIN data is a row   *)
(* of NaN.  A gene name is its base followed by the numbers of its dotted  *)
(* suffixes: "A" is <<"A">>, "A.1" is <<"A", 1>>.                          *)

CountTable(index, columns, values, sparse) ==
    [index |-> index, columns |-> columns, values |-> values, sparse |-> sparse]

CoordinateTable(index, columns, data) ==
    [index |-> index, columns |-> columns, data |-> data]

\* the positions of the labels, by label ascending
argsort(index) ==
    [r \in DOMAIN index |->
        CHOOSE p \in DOMAIN index :
            Cardinality({q \in DOMAIN index :
                            \/ index[q] < index[p]
                            \/ index[q] = index[p] /\ q < p}) = r - 1]

\* DataFrame.sort_index(): the rows by label ascending
sort_index(df) ==
    [df EXCEPT !.index = [r \in DOMAIN df.index |-> df.index[argsort(df.index)[r]]]]

\* coordinate_df.reindex(index=...): the rows of the given labels, in the
\* given order; a label the table does not have becomes a row of NaN
reindex_rows(df, index) ==
    [df EXCEPT !.index = index,
               !.data = [r \in DOMAIN df.data \cap Range(index) |-> df.data[r]]]

\* the rows of NaN of a coordinate table
isna(df) == Range(df.index) \ DOMAIN df.data

\* DataFrame.fillna(0) of the expression matrix
fillna(df) ==
    [df EXCEPT !.values = [j \in DOMAIN df.values |->
                              [r \in DOMAIN df.values[j] |->
                                  IF df.values[j][r] = NaN THEN Zero
                                  ELSE df.values[j][r]]]]

\* collections.Counter(columns)[gene_name]
Counter(columns, gene_name) ==
    Cardinality({i \in DOMAIN columns : columns[i] = gene_name})

\* gene_name += f".{n}"
add_suffix(gene_name, n) == Append(gene_name, n)

\* STDataset.__init__, the loop that renames duplicated columns, from the
\* i-th column on: a name that occurs more than once keeps its first
\* occurrence and gets the suffix .1, .2, ... on the following ones
RECURSIVE rename_loop(_, _, _, _)
rename_loop(columns, i, genes, gene_suffix) ==
    IF i > Len(columns) THEN genes
    ELSE LET gene_name == columns[i]
         IN  IF Counter(columns, gene_name) > 1
             THEN IF gene_name \in DOMAIN gene_suffix
                  THEN LET n == gene_suffix[gene_name] + 1
                       IN  rename_loop(columns, i + 1,
                                       Append(genes, add_suffix(gene_name, n)),
                                       [gene_suffix EXCEPT ![gene_name] = n])
                  ELSE rename_loop(columns, i + 1, Append(genes, gene_name),
                                   gene_suffix @@ (gene_name :> 0))
             ELSE rename_loop(columns, i + 1, Append(genes, gene_name),
                              gene_suffix)

rename_duplicated(columns) == rename_loop(columns, 1, <<>>, <<>>)

\* the attributes of a new STDataset
Object(count, coordinate) ==
    [count_df |-> count, coordinate_df |-> coordinate,
     normalizer |-> None, array_coordinate |-> None,
     weight |-> None, weight_type |-> <<None, None>>, hotspot_df |-> None,
     local_moran_i |-> None, local_moran_p |-> None, AI |-> None, Di |-> None,
     svg_cluster |-> None, spot_type |-> None]

\* svgbit/core/STDataset.py, STDataset.__init__ on two DataFrames: the
\* tables are copied, so the caller's instances are not touched
STDataset(count, coordinate, make_sparse, check_duplicate_genes, sort_spots) ==
    LET c1 == IF sort_spots THEN sort_index(count) ELSE count
        d1 == IF sort_spots THEN reindex_rows(coordinate, c1.index)
              ELSE coordinate
        d2 == [d1 EXCEPT !.columns = <<"X", "Y">>]
        c2 == fillna(c1)
        c3 == IF check_duplicate_genes
              THEN [c2 EXCEPT !.columns = rename_duplicated(c2.columns)]
              ELSE c2
        c4 == IF make_sparse THEN [c3 EXCEPT !.sparse = TRUE] ELSE c3
    IN  IF Len(c1.index) # Len(d2.index) THEN Raise("AssertionError")
        ELSE IF c1.index # d2.index THEN Raise("AssertionError")
        ELSE Ok(Object(c4, d2))

\* SVGLib/core/STDataset.py, STDataset.__init__ on two DataFrames: the
\* dataset holds the caller's instances themselves and sorts and relabels
\* them in place, before it compares the spots
STDatasetSVGLib(count, coordinate) ==
    LET c1 == sort_index(count)
        d1 == [sort_index(coordinate) EXCEPT !.columns = <<"X", "Y">>]
    IN  [caller |-> [count_df |-> c1, coordinate_df |-> d1],
         result |-> IF Len(c1.index) # Len(d1.index) THEN Raise("ValueError")
                    ELSE IF c1.index # d1.index THEN Raise("AssertionError")
                    ELSE Ok(Object(c1, d1))]

---------------------------------------------------------------------------
(* The dataset object and the calls made on it *)

Spots == Range(count_df.index)
Genes == Range(count_df.columns)

\* the tables of n spots and g genes the caller constructs from
Tables(n, g) ==
    [count_df |->
        CountTable([i \in 1 .. n |-> i], [j \in 1 .. g |-> GeneKey(j)],
                   [j \in 1 .. g |-> [i \in 1 .. n |-> Frac((i * j) % 3, 1)]],
                   FALSE),
     coordinate_df |->
        CoordinateTable([i \in 1 .. n |-> i], <<"X", "Y">>,
                        [i \in 1 .. n |-> <<i * i, i % 2>>])]

\* STDataset(count_df, coordinate_df) over n spots and g genes: the state
\* after the construction, the derived fields None
InitDataset(n, g) ==
    /\ caller = Tables(n, g)
    /\ LET new == STDataset(caller.count_df, caller.coordinate_df,
                            TRUE, TRUE, TRUE).val
       IN  /\ count_df = new.count_df
           /\ coordinate_df = new.coordinate_df
    /\ normalizer = None
    /\ array_coordinate = None
    /\ returned = None
    /\ hotspot_w = None
    /\ weight = None
    /\ weight_type = <<None, None>>
    /\ hotspot_df = None
    /\ local_moran_i = None
    /\ local_moran_p = None
    /\ AI = None
    /\ Di = None
    /\ svg_cluster = None
    /\ spot_type = None
    /\ stack = <<>>
    /\ pool = None
    /\ outcome = [op |-> "init", args |-> <<>>, status |-> "returned",
                  err |-> "", gene |-> None, before |-> <<>>]
    /\ log = <<>>
    /\ calls = 0
    /\ hotspot_q = None
    /\ gene_cluster = None

Frame(op, a, b) == [op |-> op, a |-> a, b |-> b]

\* the derived fields, as one value
Derived ==
    [weight |-> weight, weight_type |-> weight_type, hotspot_df |-> hotspot_df,
     local_moran_i |-> local_moran_i, local_moran_p |-> local_moran_p,
     AI |-> AI, Di |-> Di, svg_cluster |-> svg_cluster, spot_type |-> spot_type]

\* a top-level call: possible when no call is running
Call(op, args) ==
    /\ stack = <<>>
    /\ calls' = calls + 1
    /\ outcome' = [op |-> op, args |-> args, status |-> "running", err |-> "", gene |-> None,
                   before |-> Derived]
    /\ log' = <<>>
    /\ UNCHANGED <<dataVars, derivedVars, pool, gene_cluster>>

\* the head call returns to its caller
Return(rest) ==
    /\ stack' = rest
    /\ outcome' = IF rest = <<>> THEN [outcome EXCEPT !.status = "returned"]
                  ELSE outcome

\* an exception: no call of the repository catches one, so it unwinds every
\* running call and reaches the user
Throw(e) ==
    /\ stack' = <<>>
    /\ pool' = None
    /\ outcome' = [outcome EXCEPT !.status = "raised", !.err = e]

Top == stack[1]
Running(op) == stack # <<>> /\ Top.op = op

\* run with the density stage called before the hotspot stage
run_frames_swapped(k, n_svgs, n_svg_clusters, cores) ==
    << Frame("acquire_weight", k, 0),
       Frame("acquire_density", cores, 0),
       Frame("acquire_hotspot", cores, 0),
       Frame("find_clusters", n_svgs, n_svg_clusters) >>

\* svgbit/run.py, run: the four stage calls, in this order
run_frames(k, n_svgs, n_svg_clusters, cores) ==
    << Frame("acquire_weight", k, 0),
       Frame("acquire_hotspot", cores, 0),
       Frame("acquire_density", cores, 0),
       Frame("find_clusters", n_svgs, n_svg_clusters) >>

CallRun(k, n_svgs, n_svg_clusters, cores) ==
    /\ Call("run", <<k, n_svgs, n_svg_clusters, cores>>)
    /\ stack' = run_frames(k, n_svgs, n_svg_clusters, cores)

CallAcquireWeight(k) ==
    /\ Call("acquire_weight", <<k>>)
    /\ stack' = <<Frame("acquire_weight", k, 0)>>

CallAcquireHotspot(cores) ==
    /\ Call("acquire_hotspot", <<cores>>)
    /\ stack' = <<Frame("acquire_hotspot", cores, 0)>>

CallAcquireDensity(cores) ==
    /\ Call("acquire_density", <<cores>>)
    /\ stack' = <<Frame("acquire_density", cores, 0)>>

CallFindClusters(n_svgs, n_svg_clusters) ==
    /\ Call("find_clusters", <<n_svgs, n_svg_clusters>>)
    /\ stack' = <<Frame("find_clusters", n_svgs, n_svg_clusters)>>

\* STDataset.weight setter
SetWeight(value) ==
    /\ stack = <<>>
    /\ weight' = Some(value)
    /\ weight_type' = <<Some("User specified weight"), None>>
    /\ outcome' = [op |-> "weight.setter", args |-> <<>>, status |-> "returned",
                   err |-> "", gene |-> None, before |-> Derived]
    /\ log' = <<>>
    /\ UNCHANGED <<dataVars, hotspot_df, local_moran_i, local_moran_p, AI, Di,
                   svg_cluster, spot_type, hotspot_q, hotspot_w, stack, pool, calls,
                   gene_cluster>>

\* STDataset.acquire_weight
AcquireWeight ==
    /\ Running("acquire_weight")
    /\ LET r == KNN(coordinate_df.data, Top.a)
       IN  IF r.ok
           THEN /\ weight' = Some(r.val)
                /\ weight_type' = <<Some("KNN"), Some(Top.a)>>
                /\ Return(Tail(stack))
                /\ log' = log \o <<"weight:begin", "weight:end">>
                /\ UNCHANGED pool
           ELSE /\ Throw(r.err)
                /\ UNCHANGED <<weight, weight_type, log>>
    /\ UNCHANGED <<dataVars, hotspot_df, local_moran_i, local_moran_p, AI, Di,
                   svg_cluster, spot_type, hotspot_q, hotspot_w, calls, gene_cluster>>

\* multiprocessing.Pool(processes=cores) and pool.map(func, items): the
\* tasks are handed out in the order of items, at most `cores` at a time
NewPool(func, items, cores, args) ==
    [func |-> func, items |-> items, cores |-> cores, args |-> args,
     started |-> 0, running |-> {},
     results |-> [i \in DOMAIN items |-> None],
     inputs |-> [i \in DOMAIN items |-> None],
     order |-> <<>>, failed |-> <<>>]

\* STDataset.acquire_hotspot up to the pool of local_moran: without a weight
\* acquire_weight() runs first, with its default k
AcquireHotspot ==
    /\ Running("acquire_hotspot")
    /\ IF IsNone(weight)
       THEN /\ stack' = <<Frame("acquire_weight", DefaultK, 0),
                          Frame("local_moran", Top.a, 0)>> \o Tail(stack)
            /\ UNCHANGED <<pool, outcome>>
       ELSE /\ stack' = <<Frame("local_moran", Top.a, 0)>> \o Tail(stack)
            /\ UNCHANGED <<pool, outcome>>
    /\ log' = log \o <<"hotspot:begin">>
    /\ UNCHANGED <<dataVars, derivedVars, calls, gene_cluster>>

\* svgbit/core/moran.py, local_moran: the pool is created and the genes are
\* mapped
LocalMoranStart ==
    /\ Running("local_moran")
    /\ IF Top.a < 1
       THEN Throw("ValueError")
       ELSE /\ pool' = Some(NewPool("local_moran", count_df.columns, Top.a, <<>>))
            /\ stack' = <<Frame("local_moran_join", 0, 0)>> \o Tail(stack)
            /\ UNCHANGED outcome
    /\ UNCHANGED <<dataVars, derivedVars, calls, log, gene_cluster>>

\* a worker takes the next task
PoolStart ==
    /\ ~IsNone(pool)
    /\ Get(pool).started < Len(Get(pool).items)
    /\ Cardinality(Get(pool).running) < Get(pool).cores
    /\ pool' = Some([Get(pool) EXCEPT
                        !.started = @ + 1,
                        !.running = @ \cup {Get(pool).started + 1}])
    /\ UNCHANGED <<dataVars, derivedVars, stack, outcome, calls, log, gene_cluster>>

\* a worker finishes a task of local_moran; lisa is what esda computed
PoolDoneMoran(i, lisa) ==
    /\ ~IsNone(pool)
    /\ Get(pool).func = "local_moran"
    /\ i \in Get(pool).running
    /\ pool' = Some([Get(pool) EXCEPT
                        !.running = @ \ {i},
                        !.results[i] = Some(_local_moran(Get(pool).items[i],
                                                         count_df.index, lisa)),
                        !.inputs[i] = Some(lisa),
                        !.order = Append(@, i)])
    /\ UNCHANGED <<dataVars, derivedVars, stack, outcome, calls, log, gene_cluster>>

\* the task of a worker raises e: the pool keeps the exception, with the
\* position of the task, and goes on with the other tasks
PoolFail(i, e) ==
    /\ ~IsNone(pool)
    /\ i \in Get(pool).running
    /\ pool' = Some([Get(pool) EXCEPT
                        !.running = @ \ {i},
                        !.failed = Append(@, <<i, e>>),
                        !.order = Append(@, i)])
    /\ UNCHANGED <<dataVars, derivedVars, stack, outcome, calls, log, gene_cluster>>

PoolFinished ==
    /\ ~IsNone(pool)
    /\ Get(pool).started = Len(Get(pool).items)
    /\ Get(pool).running = {}

\* the results in the order in which the tasks completed
result_lists_unordered ==
    [n \in DOMAIN Get(pool).items |-> Get(Get(pool).results[Get(pool).order[n]])]

\* pool.map returns the results in the order of its items
result_lists == [i \in DOMAIN Get(pool).items |-> Get(Get(pool).results[i])]

\* pool.map that gives the results of the tasks that completed, in the
\* order of the items, whenever there is one
pool_map_partial ==
    LET completed == SelectSeq([i \in DOMAIN Get(pool).items |-> i],
                               LAMBDA i : ~IsNone(Get(pool).results[i]))
    IN  IF completed = <<>> THEN Raise(Get(pool).failed[1][2])
        ELSE Ok([n \in DOMAIN completed |-> Get(Get(pool).results[completed[n]])])

\* pool.map: when a task has raised, the exception of the first task that
\* raised is raised again in the caller, as the worker raised it; else the
\* list of the results
pool_map ==
    IF Get(pool).failed # <<>> THEN Raise(Get(pool).failed[1][2])
    ELSE Ok(result_lists)

\* local_moran after pool.map, and the rest of STDataset.acquire_hotspot
LocalMoranJoin ==
    /\ Running("local_moran_join")
    /\ PoolFinished
    /\ LET r == IF pool_map.ok THEN local_moran_merge(pool_map.val)
                ELSE pool_map
       IN  IF r.ok
           THEN /\ hotspot_df' = Some(reindex(r.val[1], count_df.index,
                                              count_df.columns))
                /\ local_moran_i' = Some(astype_sparse(r.val[2]))
                /\ local_moran_p' = Some(astype_sparse(r.val[3]))
                /\ hotspot_q' = Some([i \in DOMAIN Get(pool).items |->
                                         IF IsNone(Get(pool).inputs[i]) THEN None
                                         ELSE Get(Get(pool).inputs[i]).q])
                /\ hotspot_w' = weight
                /\ pool' = None
                /\ Return(Tail(stack))
                /\ log' = log \o <<"hotspot:end">>
           ELSE /\ Throw(r.err)
                /\ UNCHANGED <<hotspot_df, local_moran_i, local_moran_p,
                               hotspot_q, hotspot_w, log>>
    /\ UNCHANGED <<dataVars, weight, weight_type, AI, Di, svg_cluster,
                   spot_type, calls, gene_cluster>>


\* STDataset.acquire_density up to the pool of hotspot_AI: without a hotspot
\* matrix acquire_hotspot() runs first, with its default cores
AcquireDensity ==
    /\ Running("acquire_density")
    /\ IF IsNone(hotspot_df)
       THEN stack' = <<Frame("acquire_hotspot", CpuCount, 0),
                       Frame("hotspot_AI", Top.a, 0)>> \o Tail(stack)
       ELSE stack' = <<Frame("hotspot_AI", Top.a, 0)>> \o Tail(stack)
    /\ log' = log \o <<"density:begin">>
    /\ UNCHANGED <<dataVars, derivedVars, pool, outcome, calls, gene_cluster>>

\* SVGLib/core/density.py, hotspot_AI, called with the stored hotspot matrix,
\* -log of the stored p-values and the stored weight: the graph becomes a
\* table, the pool is created and the genes are mapped
HotspotAIStart ==
    /\ Running("hotspot_AI")
    /\ IF Top.a < 1
       THEN Throw("ValueError")
       ELSE /\ pool' = Some(NewPool("hotspot_AI", Get(hotspot_df).columns, Top.a,
                         [hdf |-> Get(hotspot_df),
                          weight_df |-> neg_log_df(Get(local_moran_p)),
                          knn |-> pysal_to_pandas(Get(weight),
                                                  Get(hotspot_df).index)]))
            /\ stack' = <<Frame("hotspot_AI_join", 0, 0)>> \o Tail(stack)
            /\ UNCHANGED outcome
    /\ UNCHANGED <<dataVars, derivedVars, calls, log, gene_cluster>>

\* a worker finishes a task of hotspot_AI
PoolDoneAI(i) ==
    /\ ~IsNone(pool)
    /\ Get(pool).func = "hotspot_AI"
    /\ i \in Get(pool).running
    /\ pool' = Some([Get(pool) EXCEPT
                        !.running = @ \ {i},
                        !.results[i] = Some(_hotspot_AI(Get(pool).items[i],
                                                        Get(pool).args.hdf,
                                                        Get(pool).args.weight_df,
                                                        Get(pool).args.knn)),
                        !.order = Append(@, i)])
    /\ UNCHANGED <<dataVars, derivedVars, stack, outcome, calls, log, gene_cluster>>

\* hotspot_AI after pool.map, and the rest of STDataset.acquire_density
HotspotAIJoin ==
    /\ Running("hotspot_AI_join")
    /\ PoolFinished
    /\ IF pool_map.ok
       THEN /\ LET results == hotspot_AI_merge(pool_map.val)
               IN  /\ AI' = Some(reindex_series(results[1], count_df.columns))
                   /\ Di' = Some(reindex(astype_sparse(results[2]),
                                         count_df.index, count_df.columns))
            /\ pool' = None
            /\ Return(Tail(stack))
            /\ log' = log \o <<"density:end">>
       ELSE /\ Throw(pool_map.err)
            /\ UNCHANGED <<AI, Di, log>>
    /\ UNCHANGED <<dataVars, weight, weight_type, hotspot_df, local_moran_i,
                   local_moran_p, svg_cluster, spot_type, hotspot_q, hotspot_w, calls, gene_cluster>>

---------------------------------------------------------------------------
(* Cluster assignment *)

\* a/b < c/d
FracLess(x, y) == x.num * y.den < y.num * x.den

\* the genes by AI descending, equal AI in column order: the position of
\* gene g in that order
RankByAI(ai, g) ==
    LET pos(x) == CHOOSE a \in DOMAIN ai.index : ai.index[a] = x
    IN  1 + Cardinality({h \in Range(ai.index) :
                            \/ FracLess(ai.data[g], ai.data[h])
                            \/ ai.data[g] = ai.data[h] /\ pos(h) < pos(g)})

Min(a, b) == IF a < b THEN a ELSE b

\* the top n genes of that order, as a sequence
TopGenes(ai, n) ==
    [r \in 1 .. Min(n, Len(ai.index)) |->
        CHOOSE g \in Range(ai.index) : RankByAI(ai, g) = r]

\* the dominant cluster of a spot: the label most of the selected genes that
\* have a hotspot there carry; uncertain without such a gene or on a tie
SpotType(hdf, selected, labels, s) ==
    LET here == {g \in Range(selected) : hdf.data[g][s] = 1}
        count(l) == Cardinality({g \in here : labels[g] = l})
        used == {labels[g] : g \in here}
        best == {l \in used : \A l2 \in used : count(l2) <= count(l)}
    IN  IF here = {} THEN [type |-> 0, certain |-> FALSE]
        ELSE [type |-> CHOOSE l \in best : \A l2 \in best : l <= l2,
              certain |-> Cardinality(best) = 1]

\* svgbit/core/cluster.py, cluster: the assignment of the selected genes and
\* the spot types.  labels is the flat clustering of the selected genes.
cluster_svgbit(hdf, ai, n_svgs, n_svg_clusters, labels) ==
    IF IsNone(hdf) \/ IsNone(ai) THEN Raise("AttributeError")
    ELSE IF n_svgs < 1 \/ n_svg_clusters < 1 THEN Raise("InvalidParameter")
    ELSE LET selected == TopGenes(Get(ai), n_svgs)
         IN  Ok(<<[index |-> selected,
                   data |-> [g \in Range(selected) |-> labels[g]]],
                  [index |-> Get(hdf).index,
                   data |-> [s \in Range(Get(hdf).index) |->
                               SpotType(Get(hdf), selected, labels, s)]]>>)

\* the flat clusterings the cut of the dendrogram can give for these inputs
Labelings(ai, n_svgs, n_svg_clusters) ==
    IF IsNone(ai) \/ n_svgs < 1 \/ n_svg_clusters < 1 THEN {<<>>}
    ELSE [Range(TopGenes(Get(ai), n_svgs)) -> 1 .. n_svg_clusters]

\* STDataset.find_clusters (svgbit)
FindClustersWith(labels) ==
    /\ LET results == cluster_svgbit(hotspot_df, AI, Top.a, Top.b, labels)
       IN  IF results.ok
           THEN /\ svg_cluster' = Some(results.val[1])
                /\ spot_type' = Some(reindex_series(results.val[2], count_df.index))
                /\ Return(Tail(stack))
                /\ log' = log \o <<"cluster:begin", "cluster:end">>
                /\ UNCHANGED pool
           ELSE /\ Throw(results.err)
                /\ UNCHANGED <<svg_cluster, spot_type, log>>
    /\ UNCHANGED <<dataVars, weight, weight_type, hotspot_df, local_moran_i,
                   local_moran_p, AI, Di, hotspot_q, hotspot_w, calls, gene_cluster>>


FindClusters ==
    /\ Running("find_clusters")
    /\ \E labels \in Labelings(AI, Top.a, Top.b) : FindClustersWith(labels)

---------------------------------------------------------------------------
(* SVGLib: cluster and STDataset.find_clusters *)

\* SVGLib/core/moran.py, _local_moran: the hotspot column of one gene, all
\* zero when every spot would be a hotspot
_local_moran_svglib(gene, index, lisa) ==
    LET local_moran_hotspot ==
            [s \in Range(index) |->
                IF lisa.p_sim[s] < Significance /\ lisa.q[s] = HighHigh
                THEN 1 ELSE 0]
    IN  <<Series(gene, index,
                 IF \A s \in Range(index) : local_moran_hotspot[s] = 1
                 THEN [s \in Range(index) |-> 0]
                 ELSE local_moran_hotspot),
          Series(gene, index, lisa.EI_sim),
          Series(gene, index, lisa.p_sim)>>

\* the permutations of the sequence sq
Perms(sq) ==
    {o \in [DOMAIN sq -> Range(sq)] :
        \A a, b \in DOMAIN sq : a # b => o[a] # o[b]}

\* AI_series.sort_values(ascending=False).index: AI descending; the sort is
\* not stable, so genes of equal AI come in any order
sort_values_descending(ai) ==
    {o \in Perms(ai.index) :
        \A a, b \in DOMAIN o : a < b => ~FracLess(ai.data[o[a]], ai.data[o[b]])}

\* sequence[:n]
head_slice(sq, n) ==
    IF n >= 0 THEN SubSeq(sq, 1, Min(n, Len(sq)))
    ELSE SubSeq(sq, 1, IF Len(sq) + n > 0 THEN Len(sq) + n ELSE 0)

\* scipy jaccard distance of two hotspot columns: the share of the spots
\* where the columns differ among the spots where one of them is not zero
jaccard(hdf, g, h) ==
    LET either == {s \in Range(hdf.index) : hdf.data[g][s] # 0 \/ hdf.data[h][s] # 0}
        differ == {s \in either : hdf.data[g][s] # hdf.data[h][s]}
    IN  IF either = {} THEN Zero
        ELSE Frac(Cardinality(differ), Cardinality(either))

\* sch.fcluster(sch.linkage(pdist(...), "ward"), t, "maxclust") over the
\* selected genes: the label arrays the library can return.  The labels are
\* 1..c for some c <= t, and genes at distance 0 carry the same label.
fcluster(hdf, selected_genes, t) ==
    {l \in [DOMAIN selected_genes -> 1 .. t] :
        /\ \E c \in 1 .. t : Range(l) = 1 .. c
        /\ \A a, b \in DOMAIN selected_genes :
              jaccard(hdf, selected_genes[a], selected_genes[b]) = Zero
                 => l[a] = l[b]}

\* Series.sort_values(): the index by value ascending
sort_values(sr) ==
    LET pos(x) == CHOOSE a \in DOMAIN sr.index : sr.index[a] = x
        rank(x) == 1 + Cardinality({y \in Range(sr.index) :
                                       \/ sr.data[y] < sr.data[x]
                                       \/ sr.data[y] = sr.data[x] /\ pos(y) < pos(x)})
    IN  [index |-> [r \in DOMAIN sr.index |->
                       CHOOSE x \in Range(sr.index) : rank(x) = r],
         data |-> sr.data]

\* SVGLib/core/cluster.py, cluster.  order is the index of the sorted AI,
\* labels the array fcluster returns.  linkage fails on fewer than two
\* genes; pd.Series(labels, index=hotspot_df.index) fails unless there are
\* as many labels as spots.
cluster(hdf, AI_series, n_genes, n_gene_clusters, order, labels) ==
    LET selected_genes == head_slice(order, n_genes)
    IN  IF Len(selected_genes) < 2 THEN Raise("ValueError")
        ELSE IF Len(labels) # Len(hdf.index) THEN Raise("ValueError")
        ELSE Ok(sort_values(
                 [index |-> hdf.index,
                  data |-> [s \in Range(hdf.index) |->
                              labels[CHOOSE a \in DOMAIN hdf.index :
                                        hdf.index[a] = s]]]))

CallFindClustersSVGLib(n_genes, n_gene_clusters) ==
    /\ Call("SVGLib.find_clusters", <<n_genes, n_gene_clusters>>)
    /\ stack' = <<Frame("SVGLib.find_clusters", n_genes, n_gene_clusters)>>

\* SVGLib STDataset.find_clusters
FindClustersSVGLibWith(order, labels) ==
    /\ LET r == cluster(Get(hotspot_df), Get(AI), Top.b[1], Top.b[2], order, labels)
       IN  IF r.ok
           THEN /\ gene_cluster' = Some(r.val)
                /\ Return(Tail(stack))
                /\ UNCHANGED pool
           ELSE /\ Throw(r.err)
                /\ UNCHANGED gene_cluster
    /\ UNCHANGED <<dataVars, derivedVars, calls, log>>

\* cluster up to the selection of the genes: the sorted index and the two
\* parameters are the locals of the running call
ClusterSelectSVGLib ==
    /\ Running("SVGLib.find_clusters")
    /\ \E order \in sort_values_descending(Get(AI)) :
          stack' = <<Frame("SVGLib.cluster", order, <<Top.a, Top.b>>)>> \o Tail(stack)
    /\ UNCHANGED <<dataVars, derivedVars, pool, outcome, calls, log, gene_cluster>>

\* the genes a running cluster has selected
selected_genes == head_slice(Top.a, Top.b[1])

\* the rest of cluster and of find_clusters
FindClustersSVGLib ==
    /\ Running("SVGLib.cluster")
    /\ \E labels \in IF Len(selected_genes) < 2 THEN {<<>>}
                      ELSE fcluster(Get(hotspot_df), selected_genes, Top.b[2]) :
          FindClustersSVGLibWith(Top.a, labels)

\* SVGLib STDataset after acquire_weight(k) and acquire_density(): lisas[j]
\* is what esda computed for the j-th gene.  SVGLib weighs with the
\* p-values themselves.
AfterDensitySVGLib(n, g, k, lisas) ==
    LET tables == Tables(n, g)
        new == STDatasetSVGLib(tables.count_df, tables.coordinate_df)
        index == new.result.val.count_df.index
        columns == new.result.val.count_df.columns
        w == KNN(new.result.val.coordinate_df.data, k).val
        moran == [j \in 1 .. g |-> _local_moran_svglib(columns[j], index, lisas[j])]
        hdf == concat_columns([j \in 1 .. g |-> moran[j][1]]).val
        idf == concat_columns([j \in 1 .. g |-> moran[j][2]]).val
        pdf == concat_columns([j \in 1 .. g |-> moran[j][3]]).val
        dens == hotspot_AI_merge(
                    [j \in 1 .. g |->
                        _hotspot_AI(columns[j], hdf, pdf, pysal_to_pandas(w, index))])
    IN  /\ caller = new.caller
        /\ count_df = new.result.val.count_df
        /\ coordinate_df = new.result.val.coordinate_df
        /\ normalizer = None
        /\ array_coordinate = None
        /\ returned = None
        /\ hotspot_w = Some(w)
        /\ weight = Some(w)
        /\ weight_type = <<Some("KNN"), Some(k)>>
        /\ hotspot_df = Some(reindex(hdf, index, columns))
        /\ local_moran_i = Some(idf)
        /\ local_moran_p = Some(pdf)
        /\ AI = Some(dens[1])
        /\ Di = Some(dens[2])
        /\ hotspot_q = Some([j \in 1 .. g |-> lisas[j].q])
        /\ svg_cluster = None
        /\ spot_type = None
        /\ stack = <<>>
        /\ pool = None
        /\ outcome = [op |-> "acquire_density", args |-> <<>>, status |-> "returned",
                      err |-> "", gene |-> None, before |-> <<>>]
        /\ log = <<>>
        /\ calls = 0
        /\ gene_cluster = None

---------------------------------------------------------------------------
(* Filters and normalizers: functions from a dataset to a new dataset *)

\* the dataset object the variables describe
Self ==
    [count_df |-> count_df, coordinate_df |-> coordinate_df,
     normalizer |-> normalizer, array_coordinate |-> array_coordinate,
     weight |-> weight, weight_type |-> weight_type, hotspot_df |-> hotspot_df,
     local_moran_i |-> local_moran_i, local_moran_p |-> local_moran_p,
     AI |-> AI, Di |-> Di, svg_cluster |-> svg_cluster, spot_type |-> spot_type]

One == Frac(1, 1)

\* x / y, y > 0
FracDiv(x, y) == Frac(x.num * y.den, x.den * y.num)

\* the gene names of the table are pairwise distinct
distinct_columns(df) ==
    \A a, b \in DOMAIN df.columns : a # b => df.columns[a] # df.columns[b]

\* the table with the columns at the positions keep, in their order
keep_columns(df, keep) ==
    LET at == [r \in 1 .. Cardinality(keep) |->
                  CHOOSE j \in keep : Cardinality({i \in keep : i < j}) = r - 1]
    IN  [df EXCEPT !.columns = [r \in DOMAIN at |-> df.columns[at[r]]],
                   !.values = [r \in DOMAIN at |-> df.values[at[r]]]]

\* return_dset._array_coordinate = dataset._array_coordinate, and for the
\* normalizers return_dset._normalizer = name
finish(r, dataset, name) ==
    IF ~r.ok THEN r
    ELSE Ok([r.val EXCEPT !.array_coordinate = dataset.array_coordinate,
                          !.normalizer = name])

\* svgbit/core/filters.py, low_variance_filter with var = 0: the genes whose
\* variance over the spots is above 0 remain.  The variance of one spot is
\* NaN, which is not above 0.  Selecting columns by label fails on a table
\* with duplicated labels.
low_variance_filter(dataset) ==
    LET df == dataset.count_df
        var_positive(j) ==
            /\ Len(df.index) >= 2
            /\ \E a, b \in Range(df.index) : df.values[j][a] # df.values[j][b]
    IN  IF ~distinct_columns(df) THEN Raise("ValueError")
        ELSE finish(STDataset(keep_columns(df, {j \in DOMAIN df.columns : var_positive(j)}),
                              dataset.coordinate_df, TRUE, FALSE, FALSE),
                    dataset, None)

\* svgbit/core/filters.py, high_expression_filter with max_ratio = 0.99: a
\* gene is dropped when the mean over the spots of min(value, 1) is above
\* 0.99
high_expression_filter(dataset) ==
    LET df == dataset.count_df
        temp(j) == [r \in Range(df.index) |->
                       IF FracLess(df.values[j][r], One) THEN df.values[j][r]
                       ELSE One]
        dropped(j) == FracLess(Frac(99 * Len(df.index), 100),
                               FracSum(temp(j), Range(df.index)))
    IN  IF ~distinct_columns(df) THEN Raise("ValueError")
        ELSE finish(STDataset(keep_columns(df, {j \in DOMAIN df.columns : ~dropped(j)}),
                              dataset.coordinate_df, TRUE, FALSE, FALSE),
                    dataset, None)

\* svgbit/core/filters.py, quantile_filter with quantile = 0.99: the genes
\* whose mean is below the 0.99 quantile of the means remain.  The quantile
\* of g means sorted ascending lies between the two largest, at the share
\* (101 - g) / 100 of the way (g <= 100); the means are compared as sums
\* over the spots.
quantile_filter(dataset) ==
    LET df == dataset.count_df
        g == Len(df.columns)
        sum(j) == FracSum(df.values[j], Range(df.index))
        rank(j) == 1 + Cardinality({i \in DOMAIN df.columns :
                                       \/ FracLess(sum(i), sum(j))
                                       \/ sum(i) = sum(j) /\ i < j})
        at(k) == sum(CHOOSE j \in DOMAIN df.columns : rank(j) = k)
        q == IF g = 1 THEN at(1)
             ELSE LET lo == at(g - 1)
                      hi == at(g)
                  IN  FracSum(<<Frac(lo.num * (g - 1), lo.den * 100),
                                Frac(hi.num * (101 - g), hi.den * 100)>>, {1, 2})
    IN  IF ~distinct_columns(df) THEN Raise("ValueError")
        ELSE finish(STDataset(keep_columns(df, {j \in DOMAIN df.columns :
                                                   FracLess(sum(j), q)}),
                              dataset.coordinate_df, TRUE, FALSE, FALSE),
                    dataset, None)

\* count_df.T * 10000 / count_df.T.sum(): every value over the total of its
\* spot; 0 / 0 is NaN
scale(df) ==
    LET total(r) == FracSum([j \in DOMAIN df.columns |-> df.values[j][r]],
                            DOMAIN df.columns)
    IN  [j \in DOMAIN df.values |->
            [r \in Range(df.index) |->
                IF total(r) = Zero THEN NaN
                ELSE FracDiv(Frac(df.values[j][r].num * 10000, df.values[j][r].den),
                             total(r))]]

\* numpy.log(x + 1), kept as a term; log(NaN) is NaN and log(0 + 1) is 0
Log1p(x) == IF x = NaN THEN NaN ELSE IF x = Zero THEN Zero ELSE [log1p |-> x]

\* svgbit/core/normalizers.py, cpm_normalizer: count_df is assigned only
\* when the expression matrix is sparse; on a dense matrix the AttributeError
\* is passed over and the next use of count_df is an UnboundLocalError
cpm_normalizer(dataset) ==
    LET df == dataset.count_df
    IN  IF ~df.sparse THEN Raise("UnboundLocalError")
        ELSE finish(STDataset([df EXCEPT !.values = scale(df), !.sparse = FALSE],
                              dataset.coordinate_df, TRUE, FALSE, FALSE),
                    dataset, Some("cpm"))

\* svgbit/core/normalizers.py, logcpm_normalizer
logcpm_normalizer(dataset) ==
    LET df == dataset.count_df
    IN  IF ~df.sparse THEN Raise("UnboundLocalError")
        ELSE finish(STDataset([df EXCEPT
                                  !.values = [j \in DOMAIN df.values |->
                                                [r \in Range(df.index) |->
                                                    Log1p(scale(df)[j][r])]],
                                  !.sparse = FALSE],
                              dataset.coordinate_df, TRUE, FALSE, FALSE),
                    dataset, Some("logcpm"))

---------------------------------------------------------------------------
(* The construction and the transforms as steps *)

\* how a constructor or a transform ended
Ended(op, args, r) ==
    outcome' = [op |-> op, args |-> args,
                status |-> IF r.ok THEN "returned" ELSE "raised",
                err |-> IF r.ok THEN "" ELSE r.err, gene |-> None, before |-> <<>>]

Constructed == ~IsNone(count_df)

\* dataset = STDataset(count_df, coordinate_df, make_sparse=...,
\* check_duplicate_genes=..., sort_spots=...) of svgbit
New(make_sparse, check_duplicate_genes, sort_spots) ==
    /\ outcome.op = "none"
    /\ LET r == STDataset(caller.count_df, caller.coordinate_df, make_sparse,
                          check_duplicate_genes, sort_spots)
       IN  /\ Ended("STDataset", <<make_sparse, check_duplicate_genes, sort_spots>>, r)
           /\ IF r.ok
              THEN /\ count_df' = r.val.count_df
                   /\ coordinate_df' = r.val.coordinate_df
              ELSE UNCHANGED <<count_df, coordinate_df>>
    /\ UNCHANGED <<caller, normalizer, array_coordinate, returned, derivedVars,
                   stack, pool, log, calls, gene_cluster>>

\* dataset = STDataset(count_df, coordinate_df) of SVGLib
NewSVGLib ==
    /\ outcome.op = "none"
    /\ LET new == STDatasetSVGLib(caller.count_df, caller.coordinate_df)
       IN  /\ Ended("SVGLib.STDataset", <<>>, new.result)
           /\ caller' = new.caller
           /\ IF new.result.ok
              THEN /\ count_df' = new.result.val.count_df
                   /\ coordinate_df' = new.result.val.coordinate_df
              ELSE UNCHANGED <<count_df, coordinate_df>>
    /\ UNCHANGED <<normalizer, array_coordinate, returned, derivedVars,
                   stack, pool, log, calls, gene_cluster>>

\* svgbit/core/io.py, load_10X: the tables read from the files are the
\* caller's; the coordinate table follows the spots of the expression
\* matrix, the dataset is constructed with the defaults of
\* check_duplicate_genes and sort_spots, and the array positions of the
\* spots are attached to it
Load(make_sparse) ==
    /\ outcome.op = "none"
    /\ LET index == caller.count_df.index
           r == STDataset(caller.count_df,
                          reindex_rows(caller.coordinate_df, index),
                          make_sparse, TRUE, TRUE)
       IN  /\ Ended("load_10X", <<make_sparse>>, r)
           /\ IF r.ok
              THEN /\ count_df' = r.val.count_df
                   /\ coordinate_df' = r.val.coordinate_df
                   /\ array_coordinate' =
                         Some(CoordinateTable(index, <<"X", "Y">>,
                                              [s \in Range(index) |-> <<s, s % 2>>]))
              ELSE UNCHANGED <<count_df, coordinate_df, array_coordinate>>
    /\ UNCHANGED <<caller, normalizer, returned, derivedVars,
                   stack, pool, log, calls, gene_cluster>>

\* STDataset.to_dense: the accessor .sparse of a dense table is an
\* AttributeError
ToDense ==
    /\ Constructed
    /\ stack = <<>>
    /\ Ended("to_dense", <<>>,
             IF count_df.sparse THEN Ok(0) ELSE Raise("AttributeError"))
    /\ count_df' = [count_df EXCEPT !.sparse = FALSE]
    /\ UNCHANGED <<coordinate_df, caller, normalizer, array_coordinate, returned,
                   derivedVars, stack, pool, log, calls, gene_cluster>>

\* STDataset.to_sparse
ToSparse ==
    /\ Constructed
    /\ stack = <<>>
    /\ Ended("to_sparse", <<>>, Ok(0))
    /\ count_df' = [count_df EXCEPT !.sparse = TRUE]
    /\ UNCHANGED <<coordinate_df, caller, normalizer, array_coordinate, returned,
                   derivedVars, stack, pool, log, calls, gene_cluster>>

\* new = f(dataset) for a filter or a normalizer f
apply(op, dataset) ==
    CASE op = "low_variance_filter" -> low_variance_filter(dataset)
      [] op = "high_expression_filter" -> high_expression_filter(dataset)
      [] op = "quantile_filter" -> quantile_filter(dataset)
      [] op = "cpm_normalizer" -> cpm_normalizer(dataset)
      [] op = "logcpm_normalizer" -> logcpm_normalizer(dataset)

Transform(op) ==
    /\ Constructed
    /\ stack = <<>>
    /\ calls' = calls + 1
    /\ LET r == apply(op, Self)
       IN  /\ Ended(op, <<>>, r)
           /\ returned' = IF r.ok THEN Some(r.val) ELSE None
    /\ UNCHANGED <<count_df, coordinate_df, caller, normalizer, array_coordinate,
                   derivedVars, stack, pool, log, gene_cluster>>

\* svgbit/core/STDataset.py, STDataset.__getitem__ with the spots pos: the
\* rows of the two tables at pos, in the order of the index, as a new
\* dataset.  make_sparse is read from the second column of the expression
\* matrix, which is an IndexError when there is one column.
getitem(dataset, pos) ==
    LET df == dataset.count_df
        index == SelectSeq(df.index, LAMBDA r : r \in pos)
        count_sub == [df EXCEPT !.index = index,
                                !.values = [j \in DOMAIN df.values |->
                                               [r \in pos |-> df.values[j][r]]]]
        coor_sub == [dataset.coordinate_df EXCEPT
                        !.index = index,
                        !.data = [r \in pos |-> dataset.coordinate_df.data[r]]]
    IN  IF Len(df.columns) < 2 THEN Raise("IndexError")
        ELSE STDataset(count_sub, coor_sub, df.sparse, FALSE, FALSE)

\* new = dataset[first : last], the spots labelled first to last
GetItem(first, last) ==
    /\ Constructed
    /\ stack = <<>>
    /\ LET r == getitem(Self, first .. last)
       IN  /\ Ended("__getitem__", <<first, last>>, r)
           /\ returned' = IF r.ok THEN Some(r.val) ELSE None
    /\ UNCHANGED <<count_df, coordinate_df, caller, normalizer, array_coordinate,
                   derivedVars, stack, pool, log, calls, gene_cluster>>

\* d = f(d): the dataset a transform returned becomes the dataset
Rebind ==
    /\ stack = <<>>
    /\ ~IsNone(returned)
    /\ count_df' = Get(returned).count_df
    /\ coordinate_df' = Get(returned).coordinate_df
    /\ normalizer' = Get(returned).normalizer
    /\ array_coordinate' = Get(returned).array_coordinate
    /\ weight' = Get(returned).weight
    /\ weight_type' = Get(returned).weight_type
    /\ hotspot_df' = Get(returned).hotspot_df
    /\ local_moran_i' = Get(returned).local_moran_i
    /\ local_moran_p' = Get(returned).local_moran_p
    /\ AI' = Get(returned).AI
    /\ Di' = Get(returned).Di
    /\ svg_cluster' = Get(returned).svg_cluster
    /\ spot_type' = Get(returned).spot_type
    /\ hotspot_q' = None
    /\ hotspot_w' = None
    /\ returned' = None
    /\ UNCHANGED <<caller, stack, pool, outcome, log, calls, gene_cluster>>

LowVarianceFilter == Transform("low_variance_filter")
HighExpressionFilter == Transform("high_expression_filter")
QuantileFilter == Transform("quantile_filter")
CpmNormalizer == Transform("cpm_normalizer")
LogcpmNormalizer == Transform("logcpm_normalizer")

Transforms ==
    {"low_variance_filter", "high_expression_filter", "quantile_filter",
     "cpm_normalizer", "logcpm_normalizer"}

---------------------------------------------------------------------------
(* The inputs of the calls *)

\* a weight the user assigns: every spot lists the next two spots
RingW(n, transform) ==
    W([i \in 1 .. n |-> {(i % n) + 1, ((i + 1) % n) + 1}], transform)

RingWeights(n) == {RingW(n, t) : t \in {"O", "R"}}

\* the graphs over n spots in which every spot lists one of the two spots
\* that follow it (binary), and the graph in which every spot lists all the
\* others, binary and row-standardised
SmallWeights(n) ==
    {W([i \in 1 .. n |-> {((i + d[i] - 1) % n) + 1}], "O") :
        d \in [1 .. n -> {1, 2}]}
    \cup {W([i \in 1 .. n |-> (1 .. n) \ {i}], t) : t \in {"O", "R"}}

\* what the user passes in Spec: a value below the range, a value in it and,
\* for k, a value above it
KChoices == {0, 2, NSpots}
CoresChoices == {0, CpuCount}
NSvgsChoices == {0, 1, NGenes + 1}
NClustersChoices == {0, 2}

Step(lisas) ==
    \/ AcquireWeight
    \/ AcquireHotspot
    \/ LocalMoranStart
    \/ PoolStart
    \/ \E i \in 1 .. Len(count_df.columns), lisa \in lisas : PoolDoneMoran(i, lisa)
    \/ LocalMoranJoin
    \/ AcquireDensity
    \/ HotspotAIStart
    \/ \E i \in 1 .. Len(count_df.columns) : PoolDoneAI(i)
    \/ HotspotAIJoin
    \/ FindClusters

\* what the user does next, with at most `limit` stage calls in all
UserCall(limit, userWeights, ks, coresSet, nSvgs, nClusters) ==
    \/ \E k \in ks : calls < limit /\ CallAcquireWeight(k)
    \/ \E w \in userWeights : SetWeight(w)
    \/ \E c \in coresSet : calls < limit /\ CallAcquireHotspot(c)
    \/ \E c \in coresSet : calls < limit /\ CallAcquireDensity(c)
    \/ \E n \in nSvgs, t \in nClusters : calls < limit /\ CallFindClusters(n, t)
    \/ \E k \in ks, n \in nSvgs, t \in nClusters, c \in coresSet :
          calls < limit /\ CallRun(k, n, t, c)

\* The pipeline on a dataset of NSpots spots and NGenes genes; esda answers
\* with planted patterns.
UserWeights == RingWeights(NSpots)
EsdaAnswers == PlantedCases(NSpots)

Init == InitDataset(NSpots, NGenes)

Next ==
    \/ UserCall(MaxCalls, UserWeights, KChoices, CoresChoices, NSvgsChoices,
                NClustersChoices)
    \/ Step(EsdaAnswers)

Spec == Init /\ [][Next]_vars

\* One call on a new dataset of FnSpots spots and one gene, with parameters
\* in their ranges: the user assigns a weight and asks for the density, or
\* runs the whole pipeline.
\* esda answers with every combination of p-value and quadrant.
UserWeightsSmall == SmallWeights(FnSpots)
EsdaAnswersSmall == AllLisa(FnSpots)

InitSmall == InitDataset(FnSpots, 1)

NextSmall ==
    \/ \E w \in UserWeightsSmall : IsNone(weight) /\ calls = 0 /\ SetWeight(w)
    \/ ~IsNone(weight) /\ calls = 0 /\ CallAcquireDensity(1)
    \/ \E k \in 1 .. FnSpots - 1 : IsNone(weight) /\ calls = 0 /\ CallRun(k, 1, 2, 1)
    \/ Step(EsdaAnswersSmall)

SpecSmall == InitSmall /\ [][NextSmall]_vars

\* Up to SeqCalls stage calls, one after the other, on a dataset of FnSpots
\* spots and one gene, with parameters in their ranges; the user assigns a
\* weight whenever no call is running.
\* the two graphs in which every spot lists one spot: the next one, or the
\* one after the next
UserWeightsSeq ==
    {W([i \in 1 .. FnSpots |-> {((i + d - 1) % FnSpots) + 1}], "O") : d \in {1, 2}}
EsdaAnswersSeq == {PlantedLisa(FnSpots, 0, 49), PlantedLisa(FnSpots, 1, 1)}

NextSeq ==
    \/ UserCall(SeqCalls, UserWeightsSeq, {1, FnSpots - 1}, {1}, {1}, {2})
    \/ Step(EsdaAnswersSeq)

SpecSeq == InitSmall /\ [][NextSeq]_vars

\* Up to SeqCalls stage calls on a dataset of FnSpots spots and NGenes genes
\* in which the task of a gene may raise inside its worker; between the
\* calls the user converts the expression matrix to dense and to sparse.
\* the exception a task raises: its type is the library's choice
TaskErrors == {"ArithmeticError"}

InitFail == InitDataset(FnSpots, NGenes)

NextFail ==
    \/ UserCall(SeqCalls, UserWeightsSeq, {FnSpots - 1}, {1, CpuCount}, {1}, {2})
    \/ Step(EsdaAnswersSeq)
    \/ \E i \in 1 .. Len(count_df.columns), e \in TaskErrors : PoolFail(i, e)
    \/ ToDense
    \/ ToSparse

SpecFail == InitFail /\ [][NextFail]_vars

\* One run of the pipeline on a dataset of FnSpots spots and one gene or
\* NGenes genes, and the selection of spots from the dataset, before the
\* run and after it.
InitItem == \E g \in {1, NGenes} : InitDataset(FnSpots, g)

NextItem ==
    \/ \E k \in {1, FnSpots - 1} : calls < MaxCalls /\ CallRun(k, 1, 2, 1)
    \/ Step(EsdaAnswersSeq)
    \/ \E first, last \in 1 .. FnSpots : first <= last /\ GetItem(first, last)

SpecItem == InitItem /\ [][NextItem]_vars

\* SVGLib: find_clusters on a dataset of ClSpots spots and ClGenes genes on
\* which acquire_density has run.
EsdaAnswersCluster ==
    {PlantedLisa(ClSpots, 0, 49), PlantedLisa(ClSpots, 1, 49),
     PlantedLisa(ClSpots, 2, 1), PlantedLisa(ClSpots, 2, 49),
     PlantedLisa(ClSpots, ClSpots, 49)}

NGenesChoices == {1, 2, ClSpots, ClGenes + 1}

InitCluster ==
    \E k \in {1, 2}, lisas \in [1 .. ClGenes -> EsdaAnswersCluster] :
        AfterDensitySVGLib(ClSpots, ClGenes, k, lisas)

NextCluster ==
    \/ \E n \in NGenesChoices, t \in {1, 2} :
          calls < MaxCalls /\ CallFindClustersSVGLib(n, t)
    \/ ClusterSelectSVGLib
    \/ FindClustersSVGLib

SpecCluster == InitCluster /\ [][NextCluster]_vars

\* The construction from the caller's tables, and one transform of the new
\* dataset.  The caller's tables: spot labels in every order, over the same
\* and over different sets of spots, with one gene; gene names with and
\* without repetitions; and every matrix of counts over two spots and two
\* genes.
InjSeqs(S, n) ==
    {q \in [1 .. n -> S] : \A a, b \in 1 .. n : a # b => q[a] # q[b]}

IndexChoices ==
    InjSeqs(1 .. NewSpots, NewSpots - 1) \cup InjSeqs(1 .. NewSpots, NewSpots)

NameChoices == {<<"A">>, <<"A", 1>>, <<"B">>}

ColumnChoices == UNION {[1 .. g -> NameChoices] : g \in 1 .. NewGenes}

\* counts[j][r] is the count of the j-th gene in the spot labelled r
CallerTable(index, columns, counts, coordinate_index, labels) ==
    [count_df |->
        CountTable(index, columns,
                   [j \in DOMAIN columns |-> [r \in Range(index) |-> Frac(counts[j][r], 1)]],
                   FALSE),
     coordinate_df |->
        CoordinateTable(coordinate_index, labels,
                        [r \in Range(coordinate_index) |-> <<r * r, r % 2>>])]

CallerChoices ==
    {CallerTable(ci, <<<<"A">>>>, [j \in {1} |-> [r \in Range(ci) |-> r]], di, xy) :
        ci \in IndexChoices, di \in IndexChoices,
        xy \in {<<"X", "Y">>, <<"row", "col">>}}
    \cup {CallerTable(<<1, 2>>, columns,
                      [j \in DOMAIN columns |-> [r \in 1 .. 2 |-> j + r]],
                      <<1, 2>>, <<"X", "Y">>) :
            columns \in ColumnChoices}
    \cup {CallerTable(<<1, 2>>, <<<<"A">>, <<"B">>>>, counts, <<1, 2>>, <<"X", "Y">>) :
            counts \in [1 .. 2 -> [1 .. 2 -> 0 .. MaxCount]]}

InitNew ==
    /\ caller \in CallerChoices
    /\ count_df = None
    /\ coordinate_df = None
    /\ normalizer = None
    /\ array_coordinate = None
    /\ returned = None
    /\ weight = None
    /\ weight_type = <<None, None>>
    /\ hotspot_df = None
    /\ local_moran_i = None
    /\ local_moran_p = None
    /\ AI = None
    /\ Di = None
    /\ svg_cluster = None
    /\ spot_type = None
    /\ hotspot_q = None
    /\ hotspot_w = None
    /\ gene_cluster = None
    /\ stack = <<>>
    /\ pool = None
    /\ outcome = [op |-> "none", args |-> <<>>, status |-> "returned",
                  err |-> "", gene |-> None, before |-> <<>>]
    /\ log = <<>>
    /\ calls = 0

NextNew ==
    \/ \E make_sparse, check_duplicate_genes, sort_spots \in BOOLEAN :
          New(make_sparse, check_duplicate_genes, sort_spots)
    \/ NewSVGLib
    \/ ToDense
    \/ ToSparse
    \/ calls < MaxTransforms /\ LowVarianceFilter
    \/ calls < MaxTransforms /\ HighExpressionFilter
    \/ calls < MaxTransforms /\ QuantileFilter
    \/ calls < MaxTransforms /\ CpmNormalizer
    \/ calls < MaxTransforms /\ LogcpmNormalizer

SpecNew == InitNew /\ [][NextNew]_vars

\* A dataset loaded from files, with array positions, and up to SeqCalls
\* transforms, each applied to the dataset the one before returned.  The
\* files hold every matrix of counts over two spots and two genes.  A
\* dataset is normalized once, and the filters that order the values are
\* applied to counts and to cpm values.
ChainChoices ==
    {CallerTable(<<1, 2>>, <<<<"A">>, <<"B">>>>, counts, <<1, 2>>, <<"X", "Y">>) :
        counts \in [1 .. 2 -> [1 .. 2 -> 0 .. MaxCount]]}

InitChain == InitNew /\ caller \in ChainChoices

NextChain ==
    \/ \E make_sparse \in BOOLEAN : Load(make_sparse)
    \/ calls < SeqCalls /\ normalizer = None /\ CpmNormalizer
    \/ calls < SeqCalls /\ normalizer = None /\ LogcpmNormalizer
    \/ calls < SeqCalls /\ LowVarianceFilter
    \/ calls < SeqCalls /\ normalizer # Some("logcpm") /\ HighExpressionFilter
    \/ calls < SeqCalls /\ normalizer # Some("logcpm") /\ QuantileFilter
    \/ Rebind

SpecChain == InitChain /\ [][NextChain]_vars

---------------------------------------------------------------------------
(* Properties of the hotspot matrix, checked under SpecSmall *)

\* C1: every entry of the stored hotspot matrix is 0 or 1, and it is 1
\* exactly when the permutation p-value of that spot for that gene is below
\* 0.05 and the spot lies in the High-High quadrant (q = 1).
C1_HotspotIffSignificantHighHigh ==
    ~IsNone(hotspot_df) =>
        \A j \in DOMAIN count_df.columns : \A s \in Spots :
            LET g == count_df.columns[j]
                h == Get(hotspot_df).data[g][s]
            IN  /\ h \in {0, 1}
                /\ h = 1 <=> (Get(local_moran_p).data[g][s] < 50
                              /\ Get(hotspot_q)[j][s] = 1)

\* a stored matrix with a hotspot and with a High-High spot whose p-value is
\* exactly 0.05, which is no hotspot
C1_Witness ==
    /\ ~IsNone(hotspot_df)
    /\ \E s, t \in Spots :
          /\ Get(hotspot_df).data[GeneKey(1)][s] = 1
          /\ Get(hotspot_df).data[GeneKey(1)][t] = 0
          /\ Get(local_moran_p).data[GeneKey(1)][t] = 50
          /\ Get(hotspot_q)[1][t] = 1

\* esda found every spot of the i-th gene of the pool significant and
\* High-High
AllSignificantHighHigh(i) ==
    \A s \in Spots : /\ Get(Get(pool).inputs[i]).p_sim[s] < 50
                     /\ Get(Get(pool).inputs[i]).q[s] = 1

\* C2: when the per-gene results are merged, a gene whose hotspot column is 1
\* at every spot before the guard has an all-zero column in the matrix that
\* local_moran returns and acquire_hotspot stores.
C2_DegenerateColumnZeroed ==
    [][(Running("local_moran_join") /\ PoolFinished) =>
          \A i \in DOMAIN Get(pool).items :
              AllSignificantHighHigh(i) =>
                  /\ ~IsNone(hotspot_df')
                  /\ \A s \in Spots :
                        Get(hotspot_df').data[Get(pool).items[i]][s] = 0]_vars

---------------------------------------------------------------------------
(* Properties of AI and Di, checked under SpecSmall *)

\* a defined number in [0, 1]
InUnit(x) == x.den > 0 /\ 0 <= x.num /\ x.num <= x.den

HotspotAIPool == ~IsNone(pool) /\ Get(pool).func = "hotspot_AI"

\* C3: the AI that hotspot_AI returns for a gene, and the AI that is stored,
\* lies in [0, 1], and it is 0 when the hotspot column of the gene is all
\* zero.
C3_AIInUnitInterval ==
    /\ ~IsNone(AI) => \A g \in Genes : InUnit(Get(AI).data[g])
    /\ HotspotAIPool =>
          \A i \in DOMAIN Get(pool).items :
              ~IsNone(Get(pool).results[i]) =>
                  LET g == Get(pool).items[i]
                      r == Get(Get(pool).results[i])
                  IN  /\ InUnit(r.AI.data[g])
                      /\ (\A s \in Spots : Get(pool).args.hdf.data[g][s] = 0)
                            => r.AI.data[g] = Zero

\* a stored AI strictly between 0 and 1
C3_Witness ==
    /\ ~IsNone(AI)
    /\ \E g \in Genes : /\ 0 < Get(AI).data[g].num
                        /\ Get(AI).data[g].num < Get(AI).data[g].den

\* C4: every Di that hotspot_AI returns, and every Di that is stored, is a
\* defined number in [0, 1], also where the weights of the neighbours sum to
\* zero, and it is 0 where the hotspot entry is 0.
C4_DiInUnitInterval ==
    /\ ~IsNone(Di) =>
          \A g \in Genes : \A s \in Spots : InUnit(Get(Di).data[g][s])
    /\ HotspotAIPool =>
          \A i \in DOMAIN Get(pool).items :
              ~IsNone(Get(pool).results[i]) =>
                  LET g == Get(pool).items[i]
                      r == Get(Get(pool).results[i])
                  IN  \A s \in Spots :
                         /\ InUnit(r.Di.data[s])
                         /\ Get(pool).args.hdf.data[g][s] = 0
                               => r.Di.data[s] = Zero

\* a result for a hotspot that has neighbours whose weights sum to zero
C4_Witness ==
    /\ HotspotAIPool
    /\ \E i \in DOMAIN Get(pool).items :
          /\ ~IsNone(Get(pool).results[i])
          /\ \E s \in Spots :
                LET g == Get(pool).items[i]
                    nb == knn_coors_of(Get(pool).args.knn, s)
                IN  /\ Get(pool).args.hdf.data[g][s] = 1
                    /\ nb # {}
                    /\ SumOver(Get(pool).args.weight_df.data[g], nb) = 0
                    /\ Get(Get(pool).results[i]).Di.data[s] = Zero

\* neighbors_of(s) in the stored weight graph
neighbors_of(s) ==
    LET pos(x) == CHOOSE a \in DOMAIN count_df.index : count_df.index[a] = x
    IN  {count_df.index[a] : a \in Get(weight).neighbors[pos(s)]}

\* C5: with H the hotspots of a gene, N_i the neighbours of spot i in the
\* weight graph and w = -log(p), hotspot_AI returns
\* Di = (sum of w over H and N_i) / (sum of w over N_i) for every i in H, and
\* AI = (sum of Di over H) / |H| when H is not empty.
C5_DiAndAIFormula ==
    HotspotAIPool =>
        \A i \in DOMAIN Get(pool).items :
            ~IsNone(Get(pool).results[i]) =>
                LET g == Get(pool).items[i]
                    r == Get(Get(pool).results[i])
                    H == {s \in Spots : Get(hotspot_df).data[g][s] = 1}
                    w == [s \in Spots |-> NegLog(Get(local_moran_p).data[g][s])]
                    sumDi == FracSum(r.Di.data, H)
                IN  /\ \A s \in H :
                          SumOver(w, neighbors_of(s)) > 0 =>
                              r.Di.data[s].num * SumOver(w, neighbors_of(s))
                                = r.Di.data[s].den * SumOver(w, H \cap neighbors_of(s))
                    /\ H # {} =>
                          r.AI.data[g] = Frac(sumDi.num, sumDi.den * Cardinality(H))

\* i lists j in the weight graph and j does not list i
OneWay(i, j) == j \in neighbors_of(i) /\ i \notin neighbors_of(j)

\* C23: the neighbourhood the density stage gives a spot i holds only spots
\* that i lists in the weight graph, and on a graph of unit weights it is
\* the set of the spots i lists; there, when hotspot i lists hotspot j and j
\* does not list i, j counts in Di of i, and Di of j is 0 when j lists no
\* hotspot.
C23_NeighbourhoodIsOutgoing ==
    HotspotAIPool =>
        /\ \A i \in Spots :
              /\ knn_coors_of(Get(pool).args.knn, i) \subseteq neighbors_of(i)
              /\ Get(weight).transform = "O" =>
                    knn_coors_of(Get(pool).args.knn, i) = neighbors_of(i)
        /\ \A t \in DOMAIN Get(pool).items :
              (~IsNone(Get(pool).results[t]) /\ Get(weight).transform = "O") =>
                  LET g == Get(pool).items[t]
                      Di_g == Get(Get(pool).results[t]).Di.data
                      H == {s \in Spots : Get(hotspot_df).data[g][s] = 1}
                  IN  \A i \in H, j \in H :
                          OneWay(i, j) =>
                              /\ Di_g[i].num > 0
                              /\ H \cap neighbors_of(j) = {} => Di_g[j] = Zero

\* on a one-way edge between two hotspots the first has a positive Di and
\* the second, which lists no hotspot, has Di 0
C23_Witness ==
    /\ HotspotAIPool
    /\ Get(weight).transform = "O"
    /\ \E t \in DOMAIN Get(pool).items :
          /\ ~IsNone(Get(pool).results[t])
          /\ \E i \in Spots, j \in Spots :
                /\ OneWay(i, j)
                /\ Get(hotspot_df).data[Get(pool).items[t]][i] = 1
                /\ Get(hotspot_df).data[Get(pool).items[t]][j] = 1
                /\ Get(Get(pool).results[t]).Di.data[i].num > 0
                /\ Get(Get(pool).results[t]).Di.data[j] = Zero

\* C24: whether the weights of the graph are binary or row-standardised,
\* the neighbourhood the density stage gives a spot is the set of the spots
\* it lists, and the AI and Di of a gene are those of the same graph with
\* binary weights.
C24_NeighbourhoodWhateverTheWeights ==
    HotspotAIPool =>
        /\ \A i \in Spots :
              knn_coors_of(Get(pool).args.knn, i) = neighbors_of(i)
        /\ \A t \in DOMAIN Get(pool).items :
              ~IsNone(Get(pool).results[t]) =>
                  Get(Get(pool).results[t])
                    = _hotspot_AI(Get(pool).items[t], Get(pool).args.hdf,
                                  Get(pool).args.weight_df,
                                  pysal_to_pandas([Get(weight) EXCEPT !.transform = "O"],
                                                  Get(hotspot_df).index))

\* C29: for no gene is every spot a significant high-high spot in what the
\* task of the gene computes, so the column before the guard is never all
\* ones and no task takes the branch of the guard that resets it.
C29_ColumnNeverAllOnes ==
    (~IsNone(pool) /\ Get(pool).func = "local_moran") =>
        \A t \in DOMAIN Get(pool).items :
            ~IsNone(Get(pool).results[t]) =>
                /\ \E s \in Spots :
                      ~(/\ Get(Get(pool).inputs[t]).p_sim[s] < Significance
                        /\ Get(Get(pool).inputs[t]).q[s] = HighHigh)
                /\ Get(Get(pool).results[t])[1].kind = "Series"

---------------------------------------------------------------------------
(* Properties of the pipeline, checked under Spec *)

RunLog ==
    <<"weight:begin", "weight:end", "hotspot:begin", "hotspot:end",
      "density:begin", "density:end", "cluster:begin", "cluster:end">>

IsPrefix(a, b) == Len(a) <= Len(b) /\ a = SubSeq(b, 1, Len(a))

\* C7: run begins and ends the stages acquire_weight, acquire_hotspot,
\* acquire_density and find_clusters in this order, each stage beginning
\* after the one before it has ended, and when run has returned every
\* derived field is populated.
C7_RunStagesInOrder ==
    outcome.op = "run" =>
        /\ IsPrefix(log, RunLog)
        /\ outcome.status = "returned" =>
              /\ log = RunLog
              /\ ~IsNone(weight) /\ ~IsNone(weight_type[1])
              /\ ~IsNone(hotspot_df) /\ ~IsNone(local_moran_i)
              /\ ~IsNone(local_moran_p) /\ ~IsNone(AI) /\ ~IsNone(Di)
              /\ ~IsNone(svg_cluster) /\ ~IsNone(spot_type)

\* a call of run has returned
C7_Witness == outcome.op = "run" /\ outcome.status = "returned" /\ log = RunLog

\* C8: a stage called with parameters in their ranges on a dataset whose
\* prerequisite fields are absent (acquire_hotspot without a weight,
\* acquire_density without a hotspot matrix, find_clusters without a hotspot
\* matrix or AI) computes the prerequisites first and returns with its own
\* fields and the prerequisites populated.
C8_LazyPrerequisites ==
    /\ (/\ stack = <<>>
        /\ outcome.op = "acquire_hotspot"
        /\ outcome.args[1] >= 1
        /\ IsNone(outcome.before.weight))
          => /\ outcome.status = "returned"
             /\ ~IsNone(weight) /\ ~IsNone(hotspot_df)
    /\ (/\ stack = <<>>
        /\ outcome.op = "acquire_density"
        /\ outcome.args[1] >= 1
        /\ IsNone(outcome.before.hotspot_df))
          => /\ outcome.status = "returned"
             /\ ~IsNone(hotspot_df) /\ ~IsNone(AI) /\ ~IsNone(Di)
    /\ (/\ stack = <<>>
        /\ outcome.op = "find_clusters"
        /\ outcome.args[1] >= 1 /\ outcome.args[2] >= 1
        /\ (IsNone(outcome.before.hotspot_df) \/ IsNone(outcome.before.AI)))
          => /\ outcome.status = "returned"
             /\ ~IsNone(hotspot_df) /\ ~IsNone(AI)
             /\ ~IsNone(svg_cluster) /\ ~IsNone(spot_type)

\* C9: whatever the order in which the tasks of a pool complete, the merged
\* result of local_moran and of hotspot_AI has exactly one column (entry)
\* per input gene, in the order of the input genes, and so have the stored
\* local_moran_i and local_moran_p.
C9_MergeInInputOrder ==
    /\ ~IsNone(local_moran_p) =>
          /\ Get(local_moran_p).columns = count_df.columns
          /\ Get(local_moran_i).columns = count_df.columns
    /\ (Running("local_moran_join") /\ PoolFinished) =>
          LET r == local_moran_merge(result_lists)
          IN  r.ok =>
                 /\ \A n \in 1 .. 3 : r.val[n].columns = Get(pool).items
                 /\ \A i \in DOMAIN Get(pool).items :
                       r.val[3].data[Get(pool).items[i]]
                         = Get(Get(pool).inputs[i]).p_sim
    /\ (Running("hotspot_AI_join") /\ PoolFinished) =>
          LET r == hotspot_AI_merge(result_lists)
          IN  /\ r[1].index = Get(pool).items
              /\ r[2].columns = Get(pool).items

\* the frames a pool has produced are stored although the second gene
\* completed before the first
C9_Witness ==
    /\ Running("local_moran_join")
    /\ PoolFinished
    /\ Get(pool).order = <<2, 1>>
    /\ local_moran_merge(result_lists).ok

\* C10: a call of run or acquire_weight with a parameter outside its range
\* (k < 1 or k >= number of spots, n_svgs < 1, n_svg_clusters < 1,
\* cores < 1) ends in an error and leaves every derived field as it was
\* before the call.
C10_InvalidParameterFailsFast ==
    LET n == Len(count_df.index)
        bad_k == outcome.args[1] < 1 \/ outcome.args[1] >= n
    IN  /\ (stack = <<>> /\ outcome.op = "acquire_weight" /\ bad_k)
              => /\ outcome.status = "raised"
                 /\ Derived = outcome.before
        /\ (/\ stack = <<>>
            /\ outcome.op = "run"
            /\ \/ bad_k
               \/ outcome.args[2] < 1
               \/ outcome.args[3] < 1
               \/ outcome.args[4] < 1)
              => /\ outcome.status = "raised"
                 /\ Derived = outcome.before

\* the esda answer of the i-th task of the pool left the statistic undefined
Undefined(i) ==
    \A s \in DOMAIN Get(Get(pool).inputs[i]).EI_sim :
        Get(Get(pool).inputs[i]).EI_sim[s] = NaN

\* the sequence sq without its i-th entry
Without(sq, i) ==
    [n \in 1 .. Len(sq) - 1 |-> IF n < i THEN sq[n] ELSE sq[n + 1]]

C19_UserWeightKept ==
    (/\ outcome.op \in {"run", "acquire_hotspot", "acquire_density", "find_clusters"}
     /\ outcome.before.weight_type[1] = Some("User specified weight"))
       => /\ weight = outcome.before.weight
          /\ weight_type = outcome.before.weight_type

---------------------------------------------------------------------------
(* Properties of sequences of calls, checked under SpecSeq *)

C20_DensityUsesHotspotGraph ==
    (~IsNone(pool) /\ Get(pool).func = "hotspot_AI") => hotspot_w = weight

---------------------------------------------------------------------------
(* Properties of the cluster assignment of SVGLib, checked under SpecCluster *)

\* C21: when a task of a stage has raised, the step that ends the pool ends
\* the call with an exception, and it leaves the fields the stage owns (the
\* hotspot matrix and the local Moran I and p tables for the hotspot stage,
\* AI and Di for the density stage) at the values they had before the call.
C21_FailedStageStoresNothing ==
    [][(~IsNone(pool) /\ Get(pool).failed # <<>> /\ IsNone(pool')) =>
          /\ outcome'.status = "raised"
          /\ Get(pool).func = "local_moran" =>
                /\ hotspot_df' = outcome.before.hotspot_df
                /\ local_moran_i' = outcome.before.local_moran_i
                /\ local_moran_p' = outcome.before.local_moran_p
          /\ Get(pool).func = "hotspot_AI" =>
                /\ AI' = outcome.before.AI
                /\ Di' = outcome.before.Di]_vars

\* the hotspot stage, called again on a dataset that has a hotspot matrix,
\* has failed on a task, and the density stage has failed on a task
C21_Witness ==
    /\ outcome.status = "raised"
    /\ outcome.err \in TaskErrors
    /\ outcome.op = "acquire_hotspot"
    /\ ~IsNone(hotspot_df)
    /\ ~IsNone(local_moran_i)

\* C28: whenever the hotspot matrix or Di is set, its row labels are the
\* spots and its column labels the genes of the expression matrix, in the
\* same order, and whenever AI is set its index is the genes in their order.
C28_DerivedLabelsFollowMatrix ==
    /\ ~IsNone(hotspot_df) =>
          /\ Get(hotspot_df).index = count_df.index
          /\ Get(hotspot_df).columns = count_df.columns
    /\ ~IsNone(Di) =>
          /\ Get(Di).index = count_df.index
          /\ Get(Di).columns = count_df.columns
    /\ ~IsNone(AI) => Get(AI).index = count_df.columns

\* the three are set on a dataset of several genes whose matrix has been
\* made dense since
C28_Witness ==
    /\ ~IsNone(hotspot_df)
    /\ ~IsNone(Di)
    /\ ~IsNone(AI)
    /\ Len(count_df.columns) >= 2
    /\ outcome.op = "to_dense"
    /\ ~count_df.sparse

\* C22: when a stage has ended with the exception of a task, the exception
\* the caller receives names a gene.
C22_ErrorNamesGene ==
    (outcome.status = "raised" /\ outcome.err \in TaskErrors) =>
        ~IsNone(outcome.gene)

\* C6: when find_clusters(n_genes, n_gene_clusters) has returned, the gene
\* cluster assignment has exactly min(n_genes, number of genes) entries, its
\* keys are genes of the dataset, each once, and every label is an integer
\* in [1, n_gene_clusters].
C6_ClusterAssignmentKeyedByGene ==
    (/\ stack = <<>>
     /\ outcome.op = "SVGLib.find_clusters"
     /\ outcome.status = "returned")
       => /\ ~IsNone(gene_cluster)
          /\ Len(Get(gene_cluster).index)
               = Min(outcome.args[1], Len(count_df.columns))
          /\ Range(Get(gene_cluster).index) \subseteq Genes
          /\ Cardinality(Range(Get(gene_cluster).index))
               = Len(Get(gene_cluster).index)
          /\ \A x \in Range(Get(gene_cluster).index) :
                Get(gene_cluster).data[x] \in 1 .. outcome.args[2]

HotspotSet(g) == {s \in Spots : Get(hotspot_df).data[g][s] # 0}

\* C26: the distance cluster computes between two selected genes is
\* 1 - |H1 \cap H2| / |H1 \cup H2| for their hotspot sets H1 and H2, and 1
\* when both sets are empty.
C26_JaccardDissimilarity ==
    Running("SVGLib.cluster") =>
        \A g, h \in Range(selected_genes) :
            g # h =>
                jaccard(Get(hotspot_df), g, h)
                  = IF HotspotSet(g) \cup HotspotSet(h) = {} THEN One
                    ELSE Frac(Cardinality(HotspotSet(g) \cup HotspotSet(h))
                                - Cardinality(HotspotSet(g) \cap HotspotSet(h)),
                              Cardinality(HotspotSet(g) \cup HotspotSet(h)))

\* C16: when find_clusters with n_gene_clusters >= 2 has selected every
\* gene, two genes with the same set of hotspot spots carry the same
\* cluster label in the gene cluster assignment.
C16_IdenticalHotspotsSameCluster ==
    (/\ stack = <<>>
     /\ outcome.op = "SVGLib.find_clusters"
     /\ outcome.args[1] >= Len(count_df.columns)
     /\ outcome.args[2] >= 2)
       => \A g, h \in Genes :
             Get(hotspot_df).data[g] = Get(hotspot_df).data[h]
                => /\ outcome.status = "returned"
                   /\ {g, h} \subseteq Range(Get(gene_cluster).index)
                   /\ Get(gene_cluster).data[g] = Get(gene_cluster).data[h]

\* C17: when find_clusters(n_genes, n_gene_clusters) has returned, the
\* gene cluster assignment has exactly n_gene_clusters distinct labels.
C17_ExactlyNClustersLabels ==
    (/\ stack = <<>>
     /\ outcome.op = "SVGLib.find_clusters"
     /\ outcome.status = "returned")
       => Cardinality({Get(gene_cluster).data[x] :
                          x \in Range(Get(gene_cluster).index)})
            = outcome.args[2]

---------------------------------------------------------------------------
(* Properties of the construction and of the transforms, checked under     *)
(* SpecNew                                                                 *)

\* C11: constructing an STDataset, with sort_spots True or False, from an
\* expression matrix and a coordinate table whose sets of spot keys are not
\* the same ends in an error, and no dataset with mismatched or missing
\* coordinates exists afterwards.
C11_MismatchedSpotsRejected ==
    (/\ outcome.op = "STDataset"
     /\ Range(caller.count_df.index) # Range(caller.coordinate_df.index))
       => /\ outcome.status = "raised"
          /\ ~Constructed

\* C12: after a construction with check_duplicate_genes = True the gene
\* names of the dataset are pairwise distinct, and a name that occurs once
\* in the caller's columns is at its position unchanged.
C12_GeneNamesDistinct ==
    (/\ outcome.op = "STDataset"
     /\ outcome.status = "returned"
     /\ outcome.args[2])
       => /\ distinct_columns(count_df)
          /\ \A j \in DOMAIN caller.count_df.columns :
                Counter(caller.count_df.columns, caller.count_df.columns[j]) = 1
                   => count_df.columns[j] = caller.count_df.columns[j]

\* C13: no step changes the tables the caller constructed the dataset
\* from: their values, the order of their rows and their column labels stay
\* as the caller made them.
C13_CallerTablesUnchanged == [][caller' = caller]_vars

\* C18: a filter or a normalizer applied to a dataset with distinct gene
\* names returns a new dataset with the spots of the input in their order,
\* the coordinate table of the input and every derived field empty.
C18_TransformReturnsNewDataset ==
    (/\ outcome.op \in Transforms
     /\ distinct_columns(count_df))
       => /\ outcome.status = "returned"
          /\ ~IsNone(returned)
          /\ Get(returned).count_df.index = count_df.index
          /\ Get(returned).coordinate_df = coordinate_df
          /\ Get(returned).weight = None
          /\ Get(returned).hotspot_df = None
          /\ Get(returned).local_moran_i = None
          /\ Get(returned).local_moran_p = None
          /\ Get(returned).AI = None
          /\ Get(returned).Di = None
          /\ Get(returned).svg_cluster = None
          /\ Get(returned).spot_type = None

\* C27: dataset[pos] returns a new dataset over the selected spots, in
\* their order, with every derived field empty, and changes no field of the
\* dataset it is applied to, whatever the state of that dataset.
C27_GetItemReturnsEmptySubset ==
    [][(outcome'.op = "__getitem__" /\ outcome' # outcome) =>
          /\ outcome'.status = "returned"
          /\ ~IsNone(returned')
          /\ Get(returned').count_df.index
                = SelectSeq(count_df.index,
                            LAMBDA r : r \in outcome'.args[1] .. outcome'.args[2])
          /\ Get(returned').coordinate_df.index = Get(returned').count_df.index
          /\ Get(returned').count_df.columns = count_df.columns
          /\ Get(returned').weight = None
          /\ Get(returned').hotspot_df = None
          /\ Get(returned').AI = None
          /\ Get(returned').Di = None
          /\ Get(returned').svg_cluster = None
          /\ Get(returned').spot_type = None
          /\ UNCHANGED <<count_df, coordinate_df, normalizer, array_coordinate,
                         derivedVars>>]_vars

\* C30: a filter applied to a dataset that records a normalizer returns a
\* dataset that records the same normalizer and carries the same array
\* coordinates.
C30_NormalizerKeptByFilter ==
    (/\ outcome.op \in {"low_variance_filter", "high_expression_filter",
                        "quantile_filter"}
     /\ outcome.status = "returned"
     /\ ~IsNone(returned)
     /\ ~IsNone(normalizer))
       => /\ Get(returned).normalizer = normalizer
          /\ Get(returned).array_coordinate = array_coordinate

====
